---- MODULE Spec2Model ----
(***************************************************************************)
(* The flexible statistical anomaly classifier of the sensor dashboard     *)
(* (sensor-dashboard/src/lib/flexibleModelService.ts) and its callers.     *)
(*                                                                         *)
(* Numbers.  Temperatures, thresholds and features are integers in         *)
(* thousandths of a degree Celsius (25.0 is 25000), so that the rounding   *)
(* of the features to one or two decimals is a real conversion.  A         *)
(* confidence is a JavaScript number: NaN, or an exact fraction num/den    *)
(* of a percent.  Arithmetic is exact: the binary rounding error of IEEE   *)
(* doubles is not modelled.  The reported confidence is in tenths of a     *)
(* percent (80.0 is 800).                                                  *)
(*                                                                         *)
(* The module also holds three smaller machines of the same repository:    *)
(* the training route, the alerts panel and the model preloading route.    *)
(***************************************************************************)
EXTENDS Integers, Sequences, FiniteSets, TLC

VARIABLES
  file,       \* the optional flexible_metadata.json: its state and content
  instance,   \* FlexibleModelService.instance has been constructed
  metadata,   \* this.metadata of the singleton
  isReady,    \* this.isReady of the singleton
  handle,     \* a caller holds the object returned by getMetadata()
  now,        \* the wall clock read by new Date()
  calls,      \* the predict calls in flight, one slot per caller
  request,    \* the POST /api/predict-flexible request in flight
  probe,      \* extractFeatures/classifyTemperature applied on its own
  training,   \* the trainingJobs map of the training route and its last answer
  panel,      \* the AlertsPanel component: its prop, its alerts state
  preload     \* the ModelService singleton and the POST /api/models/status request

vars == <<file, instance, metadata, isReady, handle, now, calls, request, probe,
          training, panel, preload>>

----------------------------------------------------------------------------
(* Bounds of the model *)

\* longest readings sequence of the single-call specifications
MaxLen == 3
\* last tick of the wall clock
MaxClock == 1

----------------------------------------------------------------------------
(* JavaScript numbers *)

Abs(x) == IF x < 0 THEN -x ELSE x

RECURSIVE Gcd(_, _)
Gcd(a, b) == IF b = 0 THEN a ELSE Gcd(b, a % b)

NaNValue == [nan |-> TRUE, num |-> 0, den |-> 1]

\* the fraction n/d (d > 0) in lowest terms
Frac(n, d) ==
  LET g == Gcd(Abs(n), d)
  IN  [nan |-> FALSE, num |-> n \div g, den |-> d \div g]

\* n / d as JavaScript divides: 0/0 is NaN.  (x/0 with x # 0 is Infinity; the
\* classifier divides by a zero threshold only where maxDeviation is 0.)
JsDiv(n, d) ==
  IF d = 0 THEN NaNValue
  ELSE IF d < 0 THEN Frac(-n, -d) ELSE Frac(n, d)

Whole(n) == Frac(n, 1)

JsMul(a, b) ==
  IF a.nan \/ b.nan THEN NaNValue ELSE Frac(a.num * b.num, a.den * b.den)

JsAdd(a, b) ==
  IF a.nan \/ b.nan THEN NaNValue
  ELSE Frac(a.num * b.den + b.num * a.den, a.den * b.den)

JsSub(a, b) ==
  IF a.nan \/ b.nan THEN NaNValue
  ELSE Frac(a.num * b.den - b.num * a.den, a.den * b.den)

\* a < b, false when either is NaN
JsLess(a, b) == ~a.nan /\ ~b.nan /\ a.num * b.den < b.num * a.den

\* Math.max and Math.min: NaN if either argument is NaN
MathMax(a, b) ==
  IF a.nan \/ b.nan THEN NaNValue ELSE IF JsLess(a, b) THEN b ELSE a

MathMin(a, b) ==
  IF a.nan \/ b.nan THEN NaNValue ELSE IF JsLess(b, a) THEN b ELSE a

\* Math.round(q): floor(q + 1/2), for an integer numerator n over d > 0
RoundDiv(n, d) == (2 * n + d) \div (2 * d)

\* Math.round(x * 10) / 10 of a confidence, in tenths; NaN stays NaN
RoundTenths(x) ==
  IF x.nan THEN [nan |-> TRUE, tenths |-> 0]
  ELSE LET t == (10 * x.num) \div x.den
           r == (10 * x.num) % x.den
       IN  [nan |-> FALSE, tenths |-> IF 2 * r >= x.den THEN t + 1 ELSE t]

----------------------------------------------------------------------------
(* Program constants, in thousandths of a degree *)

\* temp < 60
PhysicalMax == 60000
\* tempRange > 2.0
RangeLimit == 2000
\* tempStd > 1.0
StdLimit == 1000
\* maxDeviation > 5.0
OverrideLimit == 5000

\* the metadata the constructor sets before initialize() runs
DefaultMetadata ==
  [ referenceTemperature |-> 25000,
    warningThreshold     |-> 1500,
    criticalThreshold    |-> 2500,
    maxSensors           |-> 10,
    version              |-> "flexible_v1.0" ]

----------------------------------------------------------------------------
(* Readings: a JavaScript number is finite (v, in thousandths), NaN,       *)
(* Infinity or -Infinity                                                   *)

Fin(v) == [k |-> "num", v |-> v]
NaNReading == [k |-> "nan", v |-> 0]
PosInf == [k |-> "pinf", v |-> 0]
NegInf == [k |-> "ninf", v |-> 0]

\* IsValidReading as it would be with the bounds of the range included
IsValidReadingInclusive(temp) ==
  temp.k = "num" /\ temp.v >= 0 /\ temp.v <= PhysicalMax

\* !isNaN(temp) && isFinite(temp) && temp > 0 && temp < 60
IsValidReading(temp) == temp.k = "num" /\ temp.v > 0 /\ temp.v < PhysicalMax

RECURSIVE SumSeq(_)
SumSeq(s) == IF s = <<>> THEN 0 ELSE Head(s) + SumSeq(Tail(s))

SeqMin(s) == CHOOSE x \in {s[i] : i \in DOMAIN s} : \A j \in DOMAIN s : x <= s[j]
SeqMax(s) == CHOOSE x \in {s[i] : i \in DOMAIN s} : \A j \in DOMAIN s : x >= s[j]

\* Math.round(y) for y = sqrt(4 * sq / unit) / 2 >= 0: the r with
\* r - 1/2 <= y < r + 1/2, that is (2r - 1)^2 * unit <= sq < (2r + 1)^2 * unit,
\* found by bisection on lo <= r <= hi
RECURSIVE RoundSqrt(_, _, _, _)
RoundSqrt(sq, unit, lo, hi) ==
  IF lo = hi THEN lo
  ELSE LET mid == (lo + hi + 1) \div 2
       IN  IF (2 * mid - 1) * (2 * mid - 1) * unit <= sq
           THEN RoundSqrt(sq, unit, mid, hi)
           ELSE RoundSqrt(sq, unit, lo, mid - 1)

\* NoValidFeatures with the mean left at zero instead of the reference
NoValidFeaturesZeroMean(md) ==
  [ meanTemp     |-> 0,
    tempStd      |-> 0,
    tempRange    |-> 0,
    maxDeviation |-> 0,
    activeSensors |-> 0 ]

\* NoValidFeatures as it would be had the missing readings counted as one
\* reading of 0 degrees
NoValidFeaturesFromZero(md) ==
  [ meanTemp     |-> 0,
    tempStd      |-> 0,
    tempRange    |-> 0,
    maxDeviation |-> md.referenceTemperature,
    activeSensors |-> 1 ]

\* lines 101-110: the features when no reading is valid
NoValidFeatures(md) ==
  [ meanTemp     |-> md.referenceTemperature,
    tempStd      |-> 0,
    tempRange    |-> 0,
    maxDeviation |-> 0,
    activeSensors |-> 0 ]

\* StatisticalFeatures as the mock service of the test script computes it:
\* maxDeviation is taken against the mean of the valid readings
StatisticalFeaturesFromMean(validReadings, md) ==
  LET n == Len(validReadings)
      temps == [i \in 1..n |-> validReadings[i].v]
      S == SumSeq(temps)
      sqDev == SumSeq([i \in 1..n |-> (n * temps[i] - S) * (n * temps[i] - S)])
      tempRange == SeqMax(temps) - SeqMin(temps)
      maxDeviation == SeqMax([i \in 1..n |-> Abs(n * temps[i] - S)])
  IN  [ meanTemp     |-> 100 * RoundDiv(S, 100 * n),
        tempStd      |-> 10 * RoundSqrt(sqDev, 25 * n * n * n, 0,
                                       tempRange \div 20 + 1),
        tempRange    |-> 10 * RoundDiv(tempRange, 10),
        maxDeviation |-> 10 * RoundDiv(maxDeviation, 10 * n),
        activeSensors |-> n ]

\* lines 112-134: the statistics of n >= 1 valid readings, rounded for display.
\* With sum S, temp - meanTemp = (n*temp - S)/n, so
\* variance = sum((n*temp - S)^2) / n^3 (in thousandths squared) and
\* tempStd * 100 = sqrt(variance) / 10 = sqrt(4 * sqDev / (25 * n^3)) / 2.
StatisticalFeatures(validReadings, md) ==
  LET n == Len(validReadings)
      temps == [i \in 1..n |-> validReadings[i].v]
      S == SumSeq(temps)
      sqDev == SumSeq([i \in 1..n |-> (n * temps[i] - S) * (n * temps[i] - S)])
      minTemp == SeqMin(temps)
      maxTemp == SeqMax(temps)
      tempRange == maxTemp - minTemp
      deviations == [i \in 1..n |-> Abs(temps[i] - md.referenceTemperature)]
      maxDeviation == SeqMax(deviations)
  IN  [ meanTemp     |-> 100 * RoundDiv(S, 100 * n),
        tempStd      |-> 10 * RoundSqrt(sqDev, 25 * n * n * n, 0,
                                       tempRange \div 20 + 1),
        tempRange    |-> 10 * RoundDiv(tempRange, 10),
        maxDeviation |-> 10 * RoundDiv(maxDeviation, 10),
        activeSensors |-> n ]

\* extractFeatures(sensorReadings) of an array, under metadata md
ExtractFeatures(sensorReadings, md) ==
  LET validReadings == SelectSeq(sensorReadings, IsValidReading)
  IN  IF Len(validReadings) = 0 THEN NoValidFeatures(md)
      ELSE StatisticalFeatures(validReadings, md)

----------------------------------------------------------------------------
(* classifyTemperature *)

\* a threshold or feature in thousandths of a degree, as a number of degrees
Degrees(milli) == Frac(milli, 1000)

\* BaseClassification with the labels of its last two branches exchanged
BaseClassificationSwapped(features, md) ==
  IF features.maxDeviation <= md.warningThreshold THEN "normal"
  ELSE IF features.maxDeviation <= md.criticalThreshold THEN "critical"
  ELSE "warning"

\* BaseClassification with strict comparisons: a deviation on a threshold
\* falls into the band above
BaseClassificationStrict(features, md) ==
  IF features.maxDeviation < md.warningThreshold THEN "normal"
  ELSE IF features.maxDeviation < md.criticalThreshold THEN "warning"
  ELSE "critical"

\* BaseClassification with a wide spread of the sensors raising a normal
\* status to warning
BaseClassificationBySpread(features, md) ==
  IF features.maxDeviation <= md.warningThreshold
  THEN IF features.tempRange > RangeLimit THEN "warning" ELSE "normal"
  ELSE IF features.maxDeviation <= md.criticalThreshold THEN "warning"
  ELSE "critical"

\* lines 150-160: the primary classification from maxDeviation
BaseClassification(features, md) ==
  IF features.maxDeviation <= md.warningThreshold THEN "normal"
  ELSE IF features.maxDeviation <= md.criticalThreshold THEN "warning"
  ELSE "critical"

\* lines 150-160: the base confidence of the band
BaseConfidence(features, md) ==
  LET d == features.maxDeviation
      w == md.warningThreshold
      c == md.criticalThreshold
  IN  IF d <= w
      THEN MathMax(Whole(60),
                   JsSub(Whole(100), JsMul(JsDiv(d, w), Whole(40))))
      ELSE IF d <= c
      THEN MathMax(Whole(50),
                   JsSub(Whole(80), JsMul(JsDiv(d - w, c - w), Whole(30))))
      ELSE MathMin(Whole(95),
                   JsAdd(Whole(70), JsMul(Degrees(d - c), Whole(10))))

\* AdjustedConfidence with the sensor-count penalty extended to two sensors
AdjustedConfidencePenaltyBelowThree(features, md) ==
  LET base == BaseConfidence(features, md)
      f1 == IF features.tempRange > RangeLimit
            THEN JsMul(base, Frac(9, 10)) ELSE base
      f2 == IF features.tempStd > StdLimit
            THEN JsMul(f1, Frac(95, 100)) ELSE f1
  IN  IF features.activeSensors < 3 THEN JsMul(f2, Frac(8, 10))
      ELSE JsMul(f2, Frac(11, 10))

\* lines 162-180: the range, deviation and sensor-count factors
AdjustedConfidence(features, md) ==
  LET base == BaseConfidence(features, md)
      f1 == IF features.tempRange > RangeLimit
            THEN JsMul(base, Frac(9, 10)) ELSE base
      f2 == IF features.tempStd > StdLimit
            THEN JsMul(f1, Frac(95, 100)) ELSE f1
  IN  IF features.activeSensors < 2 THEN JsMul(f2, Frac(8, 10))
      ELSE IF features.activeSensors >= 3 THEN JsMul(f2, Frac(11, 10))
      ELSE f2

\* OverrideApplies made to depend on the sensor count
OverrideAppliesWithSensors(features) ==
  features.maxDeviation > OverrideLimit /\ features.activeSensors > 0

\* lines 182-186: the override for an extremely high deviation
OverrideApplies(features) == features.maxDeviation > OverrideLimit

\* OverrideConfidence as it would be had the override kept the sensor-count
\* factor instead of replacing the adjusted value
OverrideConfidenceAdjusted(features) ==
  JsMul(MathMin(Whole(95),
                JsAdd(Whole(80), JsMul(Degrees(features.maxDeviation), Whole(2)))),
        IF features.activeSensors < 2 THEN Frac(8, 10) ELSE Whole(1))

OverrideConfidence(features) ==
  MathMin(Whole(95),
          JsAdd(Whole(80), JsMul(Degrees(features.maxDeviation), Whole(2))))

\* ClampConfidence without its upper limit
ClampConfidenceFloorOnly(x) == MathMax(Whole(10), x)

\* line 189: Math.max(10, Math.min(100, adjustedConfidence))
ClampConfidence(x) == MathMax(Whole(10), MathMin(Whole(100), x))

\* classifyTemperature(features): {classification, confidence}
ClassifyTemperature(features, md) ==
  [ classification |->
      IF OverrideApplies(features) THEN "critical"
      ELSE BaseClassification(features, md),
    confidence |->
      RoundTenths(ClampConfidence(
        IF OverrideApplies(features) THEN OverrideConfidence(features)
        ELSE AdjustedConfidence(features, md))) ]

----------------------------------------------------------------------------
(* Construction: the constructor and initialize() *)

\* What flexible_metadata.json can be: not there, there but unreadable or
\* not JSON (readFileSync or JSON.parse throws), or an object whose keys
\* override the defaults.
MetadataFiles ==
  { [state |-> "absent", content |-> <<>>],
    [state |-> "unreadable", content |-> <<>>],
    [state |-> "present",
     content |-> [referenceTemperature |-> 24000]],
    [state |-> "present",
     content |-> [warningThreshold |-> 0]],
    [state |-> "present",
     content |-> [warningThreshold |-> 2000, criticalThreshold |-> 6000]],
    [state |-> "present",
     content |-> [warningThreshold |-> 3000, criticalThreshold |-> 2000]] }

\* { ...this.metadata, ...JSON.parse(metadataContent) }
MergeMetadata(md, content) ==
  [f \in DOMAIN md \cup DOMAIN content |->
     IF f \in DOMAIN content THEN content[f] ELSE md[f]]

\* ReadyAfterFailedLoad as it would be had the catch block only logged
ReadyAfterFailedLoadUnset == FALSE

\* line 82: the catch block of initialize() sets isReady
ReadyAfterFailedLoad == TRUE

\* Initialize as it would be had the fields been overridden one by one
\* before the failure was noticed: an unreadable file leaves the reference
\* temperature changed
InitializePiecewise(md, f) ==
  IF f.state = "present"
  THEN [metadata |-> MergeMetadata(md, f.content), isReady |-> TRUE]
  ELSE IF f.state = "unreadable"
  THEN [metadata |-> [md EXCEPT !.referenceTemperature = 24000],
        isReady |-> TRUE]
  ELSE [metadata |-> md, isReady |-> TRUE]

\* initialize(): runs to its end inside the constructor, having no await
Initialize(md, f) ==
  IF f.state = "present"
  THEN [metadata |-> MergeMetadata(md, f.content), isReady |-> TRUE]
  ELSE IF f.state = "unreadable"
  THEN [metadata |-> md, isReady |-> ReadyAfterFailedLoad]
  ELSE [metadata |-> md, isReady |-> TRUE]

----------------------------------------------------------------------------
(* predict *)

\* the callers of predict, each with at most one call in flight
Calls == {"a", "b"}

Undefined == "undefined"

ArrayInput(readings) == [type |-> "array", readings |-> readings]
\* the arguments that are no array: a number, a plain object, null
ScalarInput == [type |-> "scalar", readings |-> <<>>]
ObjectInput == [type |-> "object", readings |-> <<>>]
NullInput == [type |-> "null", readings |-> <<>>]

\* sensorReadings.filter(...) throws a TypeError unless sensorReadings is an array
TryThrows(input) == input.type # "array"

\* LengthThrows as it would be had the catch block read sensorReadings?.length
LengthThrowsNever(input) == FALSE

\* LengthOf as it would be had the result counted the readings that passed
\* the filter
LengthOfValid(input) ==
  IF input.type = "array" THEN Len(SelectSeq(input.readings, IsValidReading))
  ELSE Undefined

\* sensorReadings.length: a TypeError on null, undefined on a number or an object
LengthThrows(input) == input.type = "null"
LengthOf(input) ==
  IF input.type = "array" THEN Len(input.readings) ELSE Undefined

\* SuccessResult with a confidence that decays as time passes
SuccessResultTimeDependent(input, md, time) ==
  LET features == ExtractFeatures(input.readings, md)
      classification == ClassifyTemperature(features, md)
  IN  [ success       |-> TRUE,
        prediction    |-> classification.classification,
        confidence    |-> [ nan |-> classification.confidence.nan,
                            tenths |-> IF classification.confidence.nan THEN 0
                                       ELSE classification.confidence.tenths - time ],
        rawPrediction |-> features.meanTemp,
        inputSensors  |-> LengthOf(input),
        features      |-> features,
        timestamp     |-> time ]

\* lines 207-223: the result built in the try block
SuccessResult(input, md, time) ==
  LET features == ExtractFeatures(input.readings, md)
      classification == ClassifyTemperature(features, md)
  IN  [ success       |-> TRUE,
        prediction    |-> classification.classification,
        confidence    |-> classification.confidence,
        rawPrediction |-> features.meanTemp,
        inputSensors  |-> LengthOf(input),
        features      |-> features,
        timestamp     |-> time ]

\* lines 225-240: the result built in the catch block
FailureResult(input, md, time) ==
  [ success       |-> FALSE,
    prediction    |-> "normal",
    confidence    |-> [nan |-> FALSE, tenths |-> 0],
    rawPrediction |-> Undefined,
    inputSensors  |-> LengthOf(input),
    features      |-> [ meanTemp     |-> md.referenceTemperature,
                        tempStd      |-> 0,
                        tempRange    |-> 0,
                        maxDeviation |-> 0,
                        activeSensors |-> 0 ],
    timestamp     |-> time ]

NoResult == <<>>

\* PredictOutcome as the mock of the test script does it: an empty array is
\* refused with an error that is thrown on to the caller
PredictOutcomeStrict(input, md, time) ==
  IF input.type = "array" /\ Len(input.readings) = 0
  THEN [pc |-> "rejected", result |-> NoResult]
  ELSE IF ~TryThrows(input)
  THEN [pc |-> "returned", result |-> SuccessResult(input, md, time)]
  ELSE IF LengthThrows(input)
  THEN [pc |-> "rejected", result |-> NoResult]
  ELSE [pc |-> "returned", result |-> FailureResult(input, md, time)]

\* PredictOutcome with the readings kept in a buffer shared by all calls: a
\* call that runs while another array is pending works on that array
PredictOutcomeShared(input, md, time) ==
  LET pending == {d \in Calls : /\ calls[d].pc = "called"
                                /\ calls[d].input.type = "array"
                                /\ calls[d].input # input}
      used == IF input.type # "array" \/ pending = {} THEN input
              ELSE calls[CHOOSE d \in pending : TRUE].input
  IN  IF ~TryThrows(used)
      THEN [pc |-> "returned", result |-> SuccessResult(used, md, time)]
      ELSE IF LengthThrows(used)
      THEN [pc |-> "rejected", result |-> NoResult]
      ELSE [pc |-> "returned", result |-> FailureResult(used, md, time)]

\* lines 205-241: how the try/catch of predict ends
PredictOutcome(input, md, time) ==
  IF ~TryThrows(input)
  THEN [pc |-> "returned", result |-> SuccessResult(input, md, time)]
  ELSE IF LengthThrows(input)
  THEN [pc |-> "rejected", result |-> NoResult]
  ELSE [pc |-> "returned", result |-> FailureResult(input, md, time)]

----------------------------------------------------------------------------
(* POST /api/predict-flexible *)

\* an HTTP answer that carries no prediction
ErrorResponse(status) == [status |-> status]

\* page.tsx lines 80-105: the success response, built after the await
SuccessResponse(body, validReadings, result, md) ==
  [ status           |-> 200,
    prediction       |-> result.prediction,
    confidence       |-> result.confidence,
    rawPrediction    |-> result.rawPrediction,
    inputSensors     |-> result.inputSensors,
    validSensors     |-> Len(validReadings),
    features         |-> result.features,
    originalReadings |-> Len(body.readings),
    filteredOut      |-> Len(body.readings) - Len(validReadings),
    referenceTemperature |-> md.referenceTemperature,
    timestamp        |-> result.timestamp ]

\* page.tsx lines 46-47: typeof temp === 'number' && !isNaN(temp) &&
\* isFinite(temp) && temp > 0 && temp < 60; every modelled entry, NaN and the
\* infinities included, is of type number
IsValidEntry(temp) == temp.k = "num" /\ temp.v > 0 /\ temp.v < PhysicalMax

\* page.tsx lines 45-48
ValidReadingsOf(body) == SelectSeq(body.readings, IsValidEntry)

\* EarlyStatus as it would be had the handler left an array without a valid
\* reading to predict
EarlyStatusLenient(body, ready) ==
  IF body.type # "array" THEN 400
  ELSE IF ~ready THEN 503
  ELSE 0

\* page.tsx lines 34-70: the answer the handler gives before calling
\* predict, or 0 when it goes on to call it
EarlyStatus(body, ready) ==
  IF body.type # "array" THEN 400
  ELSE IF Len(ValidReadingsOf(body)) = 0 THEN 400
  ELSE IF ~ready THEN 503
  ELSE 0

----------------------------------------------------------------------------
(* The other routes and components of the dashboard, before they are used *)

\* the ids POST /api/training can give to a job (line 40: unique per job)
JobIds == {"job_1", "job_2"}

\* trainingJobs.get(jobId) of an id the map does not hold
AbsentJob == [status |-> "absent", progress |-> 0, i |-> 0, pc |-> "none"]

\* part_005 line 4: const trainingJobs = new Map()
NoTraining == [jobs |-> [j \in JobIds |-> AbsentJob], answer |-> 0]

\* the AlertsPanel before it is mounted
UnmountedPanel ==
  [mounted |-> FALSE, sensorData |-> <<>>, alerts |-> <<>>,
   stale |-> FALSE, removed |-> {}]

\* modelService.ts line 231: let modelService = null; no request in flight
NoPreload ==
  [ env |-> <<>>, constructed |-> FALSE, isInitialized |-> FALSE,
    hasMetadata |-> FALSE, sessions |-> {}, pending |-> {},
    init |-> "none", req |-> "idle", answer |-> 0 ]

----------------------------------------------------------------------------
(* The service and its callers *)

\* the arguments of the predict calls made on the shared instance
CallInputs ==
  { ArrayInput(<<>>),
    ArrayInput(<<Fin(27000)>>),
    ArrayInput(<<Fin(24800), Fin(31000)>>),
    ScalarInput, ObjectInput, NullInput }

\* what a caller writes through the object getMetadata() returned
MetadataWrites ==
  { [field |-> "warningThreshold", value |-> 3000] }

IdleCall ==
  [ pc |-> "idle", input |-> NullInput, result |-> NoResult, config |-> <<>> ]

\* the sensorData of the request bodies sent to the endpoint
PostBodies ==
  { ArrayInput(<<>>),
    ArrayInput(<<NaNReading, Fin(27000)>>),
    ArrayInput(<<Fin(24800), Fin(31000)>>),
    ScalarInput }

IdleRequest ==
  [ pc |-> "idle", body |-> NullInput, result |-> NoResult,
    response |-> ErrorResponse(0) ]

NoProbe == [stage |-> "none"]

Init ==
  /\ file \in MetadataFiles
  /\ instance = FALSE
  /\ metadata = DefaultMetadata
  /\ isReady = FALSE
  /\ handle = FALSE
  /\ now = 0
  /\ calls = [c \in Calls |-> IdleCall]
  /\ request = IdleRequest
  /\ probe = NoProbe
  /\ training = NoTraining
  /\ panel = UnmountedPanel
  /\ preload = NoPreload

\* getInstance(), first call: new FlexibleModelService()
GetInstance ==
  /\ ~instance
  /\ instance' = TRUE
  /\ metadata' = Initialize(DefaultMetadata, file).metadata
  /\ isReady' = Initialize(DefaultMetadata, file).isReady
  /\ UNCHANGED <<file, handle, now, calls, request, probe, training, panel, preload>>

\* time passes
Tick ==
  /\ now < MaxClock
  /\ now' = now + 1
  /\ UNCHANGED <<file, instance, metadata, isReady, handle, calls, request, probe, training, panel, preload>>

\* a caller calls predict(input) on the instance
PredictCall(c, input) ==
  /\ instance
  /\ calls[c].pc = "idle"
  /\ calls' = [calls EXCEPT ![c] = [IdleCall EXCEPT !.pc = "called", !.input = input]]
  /\ UNCHANGED <<file, instance, metadata, isReady, handle, now, request, probe, training, panel, preload>>

\* predict runs: lines 201-203 suspend it once when the service is not
\* ready; then the try/catch runs to its end without suspending
PredictStep(c) ==
  /\ calls[c].pc \in {"called", "waiting"}
  /\ IF calls[c].pc = "called" /\ ~isReady
     THEN calls' = [calls EXCEPT ![c].pc = "waiting"]
     ELSE LET out == PredictOutcome(calls[c].input, metadata, now)
          IN  calls' = [calls EXCEPT ![c].pc = out.pc,
                                     ![c].result = out.result,
                                     ![c].config = metadata]
  /\ UNCHANGED <<file, instance, metadata, isReady, handle, now, request, probe, training, panel, preload>>

\* the caller takes the result, or the rejection, and may call again
PredictReturn(c) ==
  /\ calls[c].pc \in {"returned", "rejected"}
  /\ calls' = [calls EXCEPT ![c] = IdleCall]
  /\ UNCHANGED <<file, instance, metadata, isReady, handle, now, request, probe, training, panel, preload>>

\* getMetadata(): returns this.metadata itself
GetMetadata ==
  /\ instance
  /\ ~handle
  /\ handle' = TRUE
  /\ UNCHANGED <<file, instance, metadata, isReady, now, calls, request, probe, training, panel, preload>>

\* the caller assigns to a field of the object it got from getMetadata():
\* that object is this.metadata
WriteMetadata(w) ==
  /\ handle
  /\ metadata[w.field] # w.value
  /\ metadata' = [metadata EXCEPT ![w.field] = w.value]
  /\ UNCHANGED <<file, instance, isReady, handle, now, calls, request, probe, training, panel, preload>>

\* a client's POST arrives; the route module has imported the singleton
PostRequest(body) ==
  /\ instance
  /\ request.pc = "idle"
  /\ request' = [IdleRequest EXCEPT !.pc = "posted", !.body = body]
  /\ UNCHANGED <<file, instance, metadata, isReady, handle, now, calls, probe, training, panel, preload>>

\* page.tsx lines 29-73: the handler validates, filters, checks readiness and
\* calls predict(validReadings), whose body runs at once when the service is
\* ready; a rejection of predict is caught at line 108 and answered 500
HandlePost ==
  /\ request.pc = "posted"
  /\ LET early == EarlyStatus(request.body, isReady)
         out == PredictOutcome(ArrayInput(ValidReadingsOf(request.body)),
                               metadata, now)
     IN  IF early # 0
         THEN request' = [request EXCEPT !.pc = "responded",
                                         !.response = ErrorResponse(early)]
         ELSE IF out.pc = "rejected"
         THEN request' = [request EXCEPT !.pc = "responded",
                                         !.response = ErrorResponse(500)]
         ELSE request' = [request EXCEPT !.pc = "awaiting",
                                         !.result = out.result]
  /\ UNCHANGED <<file, instance, metadata, isReady, handle, now, calls, probe, training, panel, preload>>

\* page.tsx lines 75-105: after the await, the handler answers
RespondPost ==
  /\ request.pc = "awaiting"
  /\ request' =
       [request EXCEPT
          !.pc = "responded",
          !.response =
            IF ~request.result.success THEN ErrorResponse(500)
            ELSE SuccessResponse(request.body, ValidReadingsOf(request.body),
                                 request.result, metadata)]
  /\ UNCHANGED <<file, instance, metadata, isReady, handle, now, calls, probe, training, panel, preload>>

\* the client has its answer
CloseRequest ==
  /\ request.pc = "responded"
  /\ request' = IdleRequest
  /\ UNCHANGED <<file, instance, metadata, isReady, handle, now, calls, probe, training, panel, preload>>

Next ==
  \/ GetInstance
  \/ Tick
  \/ \E c \in Calls, input \in CallInputs : PredictCall(c, input)
  \/ \E c \in Calls : PredictStep(c)
  \/ \E c \in Calls : PredictReturn(c)
  \/ GetMetadata
  \/ \E w \in MetadataWrites : WriteMetadata(w)
  \/ \E body \in PostBodies : PostRequest(body)
  \/ HandlePost
  \/ RespondPost
  \/ CloseRequest

Spec == Init /\ [][Next]_vars

----------------------------------------------------------------------------
(* One predict call on a constructed service, over a wide range of inputs *)

\* the numbers a reading can be: NaN, the infinities, finite values outside
\* the physical range or on its edges, and valid temperatures
ReadingValues ==
  { NaNReading, PosInf, NegInf, Fin(0), Fin(60000), Fin(200000),
    Fin(23000), Fin(24800), Fin(25000), Fin(26504), Fin(27500), Fin(31000) }

RECURSIVE SeqsUpTo(_, _)
SeqsUpTo(S, n) ==
  IF n = 0 THEN {<<>>}
  ELSE LET shorter == SeqsUpTo(S, n - 1)
       IN  shorter \cup {Append(q, x) : q \in {r \in shorter : Len(r) = n - 1}, x \in S}

\* three sensors far from the reference on both sides: 18.0, 32.0 and 15.5
SpreadReadings == <<Fin(18000), Fin(32000), Fin(15500)>>

PredictInputs ==
  {ArrayInput(r) : r \in SeqsUpTo(ReadingValues, MaxLen)}
    \cup {ArrayInput(SpreadReadings)}
    \cup {ScalarInput, ObjectInput, NullInput}

\* the configurations a constructed service can have
Configurations == {Initialize(DefaultMetadata, f).metadata : f \in MetadataFiles}

InitPredict ==
  /\ file \in MetadataFiles
  /\ instance = TRUE
  /\ metadata = Initialize(DefaultMetadata, file).metadata
  /\ isReady = Initialize(DefaultMetadata, file).isReady
  /\ handle = FALSE
  /\ now = 0
  /\ \E input \in PredictInputs :
       calls = [c \in Calls |->
                  IF c = "a" THEN [IdleCall EXCEPT !.pc = "called", !.input = input]
                  ELSE IdleCall]
  /\ request = IdleRequest
  /\ probe = NoProbe
  /\ training = NoTraining
  /\ panel = UnmountedPanel
  /\ preload = NoPreload

NextPredict == \E c \in Calls : PredictStep(c)

SpecPredict == InitPredict /\ [][NextPredict]_vars

----------------------------------------------------------------------------
(* One POST to /api/predict-flexible, over a wide range of request bodies *)

\* the service is constructed and a request with some sensorData has arrived
InitPost ==
  /\ file \in MetadataFiles
  /\ instance = TRUE
  /\ metadata = Initialize(DefaultMetadata, file).metadata
  /\ isReady = Initialize(DefaultMetadata, file).isReady
  /\ handle = FALSE
  /\ now = 0
  /\ calls = [c \in Calls |-> IdleCall]
  /\ \E body \in PredictInputs :
       request = [IdleRequest EXCEPT !.pc = "posted", !.body = body]
  /\ probe = NoProbe
  /\ training = NoTraining
  /\ panel = UnmountedPanel
  /\ preload = NoPreload

NextPost == HandlePost \/ RespondPost

SpecPost == InitPost /\ [][NextPost]_vars

----------------------------------------------------------------------------
(* classifyTemperature on its own, over feature vectors of every shape *)

\* longest sensor count of a feature vector given to the classifier
MaxActive == 3

DeviationValues == {0, 300, 1500, 1510, 2000, 2500, 2510, 5000, 5010, 6000, 9500}

FeatureVectors ==
  [ meanTemp : {25000, 26200}, tempStd : {0, 1000, 1010}, tempRange : {0, 2000, 2010},
    maxDeviation : DeviationValues, activeSensors : 0..MaxActive ]

InitClassify ==
  /\ file \in MetadataFiles
  /\ instance = TRUE
  /\ metadata = Initialize(DefaultMetadata, file).metadata
  /\ isReady = Initialize(DefaultMetadata, file).isReady
  /\ handle = FALSE
  /\ now = 0
  /\ calls = [c \in Calls |-> IdleCall]
  /\ request = IdleRequest
  /\ \E features \in FeatureVectors :
       probe = [stage |-> "features", features |-> features]
  /\ training = NoTraining
  /\ panel = UnmountedPanel
  /\ preload = NoPreload

\* classifyTemperature(features) under the service's metadata
ClassifyProbe ==
  /\ probe.stage = "features"
  /\ probe' = [ stage |-> "classified", features |-> probe.features,
                classification |-> ClassifyTemperature(probe.features, metadata) ]
  /\ UNCHANGED <<file, instance, metadata, isReady, handle, now, calls, request, training, panel, preload>>

SpecClassify == InitClassify /\ [][ClassifyProbe]_vars

----------------------------------------------------------------------------
(* The training route (part_005): POST starts a simulated training job,    *)
(* DELETE cancels it, simulateTraining advances it phase by phase           *)

\* the variables of the prediction service, which the other routes and
\* components leave alone
serviceVars ==
  <<file, instance, metadata, isReady, handle, now, calls, request, probe>>

\* part_005 lines 98-108: phases.length
PhaseCount == 9

\* what a request to the training route can carry: a body that is no JSON,
\* one that lacks a required field, a complete configuration
TrainingBodies == {"unparsable", "incomplete", "complete"}

\* the jobId search parameter: one of the ids, or missing
JobIdParams == JobIds \cup {"none"}

\* lines 113-116: the top of an iteration of simulateTraining, up to the
\* await of the timer; the loop ends at i = phases.length and breaks when
\* the job is found cancelled
LoopHead(job) ==
  IF job.i < PhaseCount /\ job.status # "cancelled"
  THEN [job EXCEPT !.pc = "sleeping"]
  ELSE [job EXCEPT !.pc = "done"]

\* lines 118-128: the rest of the iteration once the timer has fired, then
\* the top of the next one.  progress counts the phases done: the code's
\* job.progress is progress / PhaseCount * 100.
AfterTimer(job) ==
  LoopHead([job EXCEPT
              !.progress = job.i + 1,
              !.status = IF job.i = PhaseCount - 1 THEN "completed"
                         ELSE job.status,
              !.i = job.i + 1])

\* lines 25-64: POST creates the job under a fresh id and calls
\* simulateTraining, which runs up to its first await: status 'running',
\* first timer started
PostTraining(j, body) ==
  /\ training.jobs[j].status = "absent"
  /\ training' =
       IF body = "unparsable" THEN [training EXCEPT !.answer = 500]
       ELSE IF body = "incomplete" THEN [training EXCEPT !.answer = 400]
       ELSE [training EXCEPT
               !.answer = 200,
               !.jobs[j] = LoopHead([status |-> "running", progress |-> 0,
                                     i |-> 0, pc |-> "sleeping"])]
  /\ UNCHANGED <<serviceVars, panel, preload>>

\* lines 116-128: the timer of a suspended simulateTraining fires
TrainingTimer(j) ==
  /\ training.jobs[j].pc = "sleeping"
  /\ training' = [training EXCEPT !.jobs[j] = AfterTimer(training.jobs[j])]
  /\ UNCHANGED <<serviceVars, panel, preload>>

\* lines 66-92: DELETE marks a running job cancelled
DeleteTraining(id) ==
  /\ training' =
       IF id = "none" THEN [training EXCEPT !.answer = 400]
       ELSE IF training.jobs[id].status = "absent"
       THEN [training EXCEPT !.answer = 404]
       ELSE IF training.jobs[id].status = "running"
       THEN [training EXCEPT !.answer = 200, !.jobs[id].status = "cancelled"]
       ELSE [training EXCEPT !.answer = 200]
  /\ UNCHANGED <<serviceVars, panel, preload>>

\* lines 6-23: GET answers with one job, or with all of them
GetTraining(id) ==
  /\ training' =
       IF id # "none" /\ training.jobs[id].status = "absent"
       THEN [training EXCEPT !.answer = 404]
       ELSE [training EXCEPT !.answer = 200]
  /\ UNCHANGED <<serviceVars, panel, preload>>

\* the prediction service not yet constructed, no metadata file present
ServiceAtRest ==
  /\ file = [state |-> "absent", content |-> <<>>]
  /\ instance = FALSE
  /\ metadata = DefaultMetadata
  /\ isReady = FALSE
  /\ handle = FALSE
  /\ now = 0
  /\ calls = [c \in Calls |-> IdleCall]
  /\ request = IdleRequest
  /\ probe = NoProbe

InitTraining ==
  /\ ServiceAtRest
  /\ training = NoTraining
  /\ panel = UnmountedPanel
  /\ preload = NoPreload

NextTraining ==
  \/ \E j \in JobIds, body \in TrainingBodies : PostTraining(j, body)
  \/ \E j \in JobIds : TrainingTimer(j)
  \/ \E id \in JobIdParams : DeleteTraining(id)
  \/ \E id \in JobIdParams : GetTraining(id)

SpecTraining == InitTraining /\ [][NextTraining]_vars

----------------------------------------------------------------------------

(* The alerts panel (part_010, AlertsPanel): alerts are generated from the *)
(* sensorData prop by an effect and edited by the user                      *)

SensorIds == {"s1", "s2"}
SensorStatuses == {"normal", "warning", "anomaly"}
\* the values of sensor.lastUpdated.getTime()
UpdateTimes == {1, 2}

\* line 242: .slice(0, 100)
AlertCap == 100

\* the sensorData prop: one reading per sensor, all taken at one refresh
SensorDataProps ==
  { <<[id |-> "s1", status |-> a, lastUpdated |-> t],
      [id |-> "s2", status |-> b, lastUpdated |-> t]>> :
      a \in SensorStatuses, b \in SensorStatuses, t \in UpdateTimes }

\* line 209: `${sensor.id}_${sensor.lastUpdated.getTime()}`
AlertIdOf(sensor) == <<sensor.id, sensor.lastUpdated>>

\* lines 224-236: the alert pushed for a sensor; severity, message,
\* temperature and confidence, which nothing here reads, are left out
NewAlert(sensor) ==
  [ id           |-> AlertIdOf(sensor),
    sensorId     |-> sensor.id,
    type         |-> IF sensor.status = "anomaly" THEN "anomaly" ELSE "warning",
    timestamp    |-> sensor.lastUpdated,
    acknowledged |-> FALSE,
    resolved     |-> FALSE ]

\* lines 207-217: the sensor is in warning or anomaly and no alert of the
\* current state has its id and timestamp
NeedsAlert(sensor, alerts) ==
  /\ sensor.status \in {"anomaly", "warning"}
  /\ ~\E k \in DOMAIN alerts :
        /\ alerts[k].sensorId = sensor.id
        /\ alerts[k].timestamp = sensor.lastUpdated

\* lines 205-239: newAlerts, in the order of sensorData
RECURSIVE NewAlerts(_, _)
NewAlerts(sensorData, alerts) ==
  IF sensorData = <<>> THEN <<>>
  ELSE (IF NeedsAlert(Head(sensorData), alerts)
        THEN <<NewAlert(Head(sensorData))>> ELSE <<>>)
         \o NewAlerts(Tail(sensorData), alerts)

\* array.slice(0, n)
SliceTo(s, n) == IF Len(s) <= n THEN s ELSE SubSeq(s, 1, n)

AlertIds(alerts) == {alerts[k].id : k \in DOMAIN alerts}

\* the component is mounted with its first prop; both effects are due
MountPanel(data) ==
  /\ ~panel.mounted
  /\ panel' = [mounted |-> TRUE, sensorData |-> data, alerts |-> <<>>,
               stale |-> TRUE, removed |-> {}]
  /\ UNCHANGED <<serviceVars, training, preload>>

\* the parent renders the panel with the sensorData of a later refresh
RenderSensorData(data) ==
  /\ panel.mounted /\ ~panel.stale
  /\ data[1].lastUpdated > panel.sensorData[1].lastUpdated
  /\ panel' = [panel EXCEPT !.sensorData = data, !.stale = TRUE,
                            !.removed = {}]
  /\ UNCHANGED <<serviceVars, training, preload>>

\* lines 203-247: the effect on [sensorData, alerts]; setAlerts makes it due
\* again
GenerateAlerts ==
  /\ panel.mounted /\ panel.stale
  /\ LET newAlerts == NewAlerts(panel.sensorData, panel.alerts)
     IN  panel' =
           IF Len(newAlerts) > 0
           THEN [panel EXCEPT
                   !.alerts = SliceTo(newAlerts \o panel.alerts, AlertCap)]
           ELSE [panel EXCEPT !.stale = FALSE]
  /\ UNCHANGED <<serviceVars, training, preload>>

\* lines 300-304
HandleAcknowledge(alertId) ==
  /\ panel.mounted /\ ~panel.stale
  /\ alertId \in AlertIds(panel.alerts)
  /\ LET Ack(a) == IF a.id = alertId THEN [a EXCEPT !.acknowledged = TRUE]
                   ELSE a
     IN  panel' = [panel EXCEPT !.alerts = [k \in DOMAIN panel.alerts |-> Ack(panel.alerts[k])],
                                !.stale = TRUE]
  /\ UNCHANGED <<serviceVars, training, preload>>

\* lines 306-310
HandleResolve(alertId) ==
  /\ panel.mounted /\ ~panel.stale
  /\ alertId \in AlertIds(panel.alerts)
  /\ LET Res(a) == IF a.id = alertId
                   THEN [a EXCEPT !.resolved = TRUE, !.acknowledged = TRUE]
                   ELSE a
     IN  panel' = [panel EXCEPT !.alerts = [k \in DOMAIN panel.alerts |-> Res(panel.alerts[k])],
                                !.stale = TRUE]
  /\ UNCHANGED <<serviceVars, training, preload>>

\* lines 312-314; removed records what the user removed under this prop
HandleDelete(alertId) ==
  /\ panel.mounted /\ ~panel.stale
  /\ alertId \in AlertIds(panel.alerts)
  /\ LET Kept(a) == a.id # alertId
     IN  panel' = [panel EXCEPT !.alerts = SelectSeq(panel.alerts, Kept),
                                !.stale = TRUE,
                                !.removed = panel.removed \cup {alertId}]
  /\ UNCHANGED <<serviceVars, training, preload>>

\* lines 316-318
ClearAllResolved ==
  /\ panel.mounted /\ ~panel.stale
  /\ LET Kept(a) == ~a.resolved
         gone == {panel.alerts[k].id :
                    k \in {n \in DOMAIN panel.alerts : panel.alerts[n].resolved}}
     IN  panel' = [panel EXCEPT !.alerts = SelectSeq(panel.alerts, Kept),
                                !.stale = TRUE,
                                !.removed = panel.removed \cup gone]
  /\ UNCHANGED <<serviceVars, training, preload>>

InitAlerts ==
  /\ ServiceAtRest
  /\ training = NoTraining
  /\ panel = UnmountedPanel
  /\ preload = NoPreload

NextAlerts ==
  \/ \E data \in SensorDataProps : MountPanel(data)
  \/ \E data \in SensorDataProps : RenderSensorData(data)
  \/ GenerateAlerts
  \/ \E a \in SensorIds \X UpdateTimes : HandleAcknowledge(a)
  \/ \E a \in SensorIds \X UpdateTimes : HandleResolve(a)
  \/ \E a \in SensorIds \X UpdateTimes : HandleDelete(a)
  \/ ClearAllResolved

SpecAlerts == InitAlerts /\ [][NextAlerts]_vars

----------------------------------------------------------------------------

(* The model preloading route (page.tsx lines 195-233) and the ModelService *)
(* singleton (modelService.ts) it waits for                                  *)

\* the keys of metadata.models
ModelNames == {"random_forest", "svm"}

\* What the models directory can hold.  meta: the metadata file is missing,
\* is no JSON, is JSON without a models entry, or lists ModelNames.  files:
\* a model file is absent, or InferenceSession.create on it resolves (loads)
\* or rejects (fails).
PreloadEnvironments ==
  [ meta : {"missing", "unparsable", "noModels", "ok"},
    files : [ModelNames -> {"absent", "loads", "fails"}] ]

\* modelService.ts lines 33-81 and 233-238: getModelService() constructs the
\* singleton on first use; the constructor runs initializeModels() up to its
\* first await.  readFileSync or JSON.parse throwing ends it in the catch
\* block; without a models entry it runs to its end; otherwise every model
\* file that exists is being loaded when it suspends at Promise.all.
GetModelService(p) ==
  IF p.constructed THEN p
  ELSE IF p.env.meta \in {"missing", "unparsable"}
  THEN [p EXCEPT !.constructed = TRUE, !.isInitialized = FALSE,
                 !.init = "done"]
  ELSE IF p.env.meta = "noModels"
  THEN [p EXCEPT !.constructed = TRUE, !.hasMetadata = TRUE,
                 !.isInitialized = TRUE, !.init = "done"]
  ELSE [p EXCEPT !.constructed = TRUE, !.hasMetadata = TRUE,
                 !.pending = {m \in ModelNames : p.env.files[m] # "absent"},
                 !.init = "loading"]

\* modelService.ts lines 159-161
IsReady(p) == p.isInitialized /\ p.hasMetadata /\ p.sessions # {}

\* page.tsx lines 203-209: checkReady resolves the promise or sets a timer
CheckReadyOutcome(p) == IF IsReady(p) THEN "resolved" ELSE "sleeping"

\* page.tsx lines 167-193: GET /api/models/status reads the status of the
\* singleton, constructing it if need be
GetStatus ==
  /\ preload' = GetModelService(preload)
  /\ UNCHANGED <<serviceVars, training, panel>>

\* modelService.ts lines 60-68: the creation of a session settles
SessionCreated(m) ==
  /\ m \in preload.pending
  /\ preload' =
       [preload EXCEPT
          !.pending = preload.pending \ {m},
          !.sessions = IF preload.env.files[m] = "loads"
                       THEN preload.sessions \cup {m} ELSE preload.sessions]
  /\ UNCHANGED <<serviceVars, training, panel>>

\* modelService.ts lines 72-76: Promise.all has resolved
FinishInitialization ==
  /\ preload.init = "loading"
  /\ preload.pending = {}
  /\ preload' = [preload EXCEPT !.isInitialized = TRUE, !.init = "done"]
  /\ UNCHANGED <<serviceVars, training, panel>>

\* page.tsx lines 196-211: POST gets the singleton and makes the first
\* check inside the promise executor
PostStatus ==
  /\ preload.req = "idle"
  /\ LET p == GetModelService(preload)
     IN  preload' = [p EXCEPT !.req = CheckReadyOutcome(p), !.answer = 0]
  /\ UNCHANGED <<serviceVars, training, panel>>

\* page.tsx line 207: the 100 ms timer expires
PollTimerFires ==
  /\ preload.req = "sleeping"
  /\ preload' = [preload EXCEPT !.req = "checking"]
  /\ UNCHANGED <<serviceVars, training, panel>>

\* page.tsx lines 203-209: checkReady runs from the timer
CheckReady ==
  /\ preload.req = "checking"
  /\ preload' = [preload EXCEPT !.req = CheckReadyOutcome(preload)]
  /\ UNCHANGED <<serviceVars, training, panel>>

\* page.tsx lines 213-221: the await is over, the handler answers
RespondStatus ==
  /\ preload.req = "resolved"
  /\ preload' = [preload EXCEPT !.req = "responded", !.answer = 200]
  /\ UNCHANGED <<serviceVars, training, panel>>

\* the client has its answer and may ask again
CloseStatus ==
  /\ preload.req = "responded"
  /\ preload' = [preload EXCEPT !.req = "idle"]
  /\ UNCHANGED <<serviceVars, training, panel>>

InitPreload ==
  /\ ServiceAtRest
  /\ training = NoTraining
  /\ panel = UnmountedPanel
  /\ \E env \in PreloadEnvironments : preload = [NoPreload EXCEPT !.env = env]

NextPreload ==
  \/ GetStatus
  \/ \E m \in ModelNames : SessionCreated(m)
  \/ FinishInitialization
  \/ PostStatus
  \/ PollTimerFires
  \/ CheckReady
  \/ RespondStatus
  \/ CloseStatus

\* timers expire, settled promises run their continuations and the handler
\* gets to answer; clients are free not to send requests
SpecPreload ==
  /\ InitPreload
  /\ [][NextPreload]_vars
  /\ WF_vars(\E m \in ModelNames : SessionCreated(m))
  /\ WF_vars(FinishInitialization)
  /\ WF_vars(PollTimerFires)
  /\ WF_vars(CheckReady)
  /\ WF_vars(RespondStatus)

----------------------------------------------------------------------------

(* Properties *)

\* the calls that have run to their end
Finished(c) == calls[c].pc \in {"returned", "rejected"}

\* 0 <= warning_threshold < critical_threshold
ValidConfiguration(md) ==
  0 <= md.warningThreshold /\ md.warningThreshold < md.criticalThreshold

\* C1: for every array of readings (any length, any mix of finite values, NaN
\* and infinities) predict terminates with a result object returned: its call
\* is never rejected, a step of it suspends at most once (only while the
\* service is not ready) and otherwise ends it, returned with a status.
C1_PredictReturnsForEverySequence ==
  /\ [](\A c \in Calls :
          calls[c].pc # "idle" /\ calls[c].input.type = "array" =>
            /\ calls[c].pc \in {"called", "waiting", "returned"}
            /\ calls[c].pc = "returned" =>
                 /\ calls[c].result # NoResult
                 /\ calls[c].result.prediction \in {"normal", "warning", "critical"})
  /\ [][ \A c \in Calls :
           PredictStep(c) /\ calls[c].input.type = "array" =>
             IF calls[c].pc = "called" /\ ~isReady
             THEN calls'[c].pc = "waiting"
             ELSE calls'[c].pc = "returned" ]_vars

\* C1 witness: a call on an array mixing NaN, an infinity and a valid reading
\* has returned.
C1_MixedSequenceReturned ==
  \E c \in Calls :
    /\ calls[c].pc = "returned"
    /\ calls[c].input.type = "array"
    /\ \E i, j, k \in DOMAIN calls[c].input.readings :
         /\ calls[c].input.readings[i] = NaNReading
         /\ calls[c].input.readings[j] = PosInf
         /\ IsValidReading(calls[c].input.readings[k])

\* C2 (as claimed): under a valid configuration the confidence of every result
\* returned for an array of readings is a number within [10, 100].
C2_ConfidenceWithinBounds ==
  \A c \in Calls :
    /\ calls[c].pc = "returned"
    /\ calls[c].input.type = "array"
    /\ ValidConfiguration(calls[c].config)
    => /\ ~calls[c].result.confidence.nan
       /\ calls[c].result.confidence.tenths >= 100
       /\ calls[c].result.confidence.tenths <= 1000

C4_NoActiveSensorIsNormal ==
  \A c \in Calls :
    /\ calls[c].pc = "returned"
    /\ calls[c].input.type = "array"
    /\ ValidConfiguration(calls[c].config)
    /\ calls[c].result.features.activeSensors = 0
    => /\ calls[c].result.prediction = "normal"
       /\ calls[c].result.rawPrediction = calls[c].config.referenceTemperature

\* C4 witness: a call on a non-empty array of invalid readings has returned
\* with no active sensor, under a reference temperature other than the default.
C4_AllInvalidReturned ==
  \E c \in Calls :
    /\ calls[c].pc = "returned"
    /\ calls[c].input.type = "array"
    /\ Len(calls[c].input.readings) > 0
    /\ calls[c].result.features.activeSensors = 0
    /\ calls[c].config.referenceTemperature # DefaultMetadata.referenceTemperature

\* C5: whatever the configuration (also with a critical threshold above 5.0)
\* and whatever the other features, a feature vector with maxDeviation > 5.0
\* is classified critical.
C5_ExtremeDeviationIsCritical ==
  probe.stage = "classified" /\ probe.features.maxDeviation > OverrideLimit
    => probe.classification.classification = "critical"

\* C5 witness: a feature vector with no active sensor, whose deviation is
\* above 5.0 and within the configured critical threshold, has been classified.
C5_OverrideBeatsLadder ==
  /\ probe.stage = "classified"
  /\ probe.features.maxDeviation > OverrideLimit
  /\ probe.features.maxDeviation <= metadata.criticalThreshold
  /\ probe.features.activeSensors = 0

\* a result without its timestamp
Untimed(result) == [result EXCEPT !.timestamp = 0]

\* C6: two predict calls with identical input, made under the same
\* configuration, return results that agree in every field but the timestamp.
C6_SameInputSameOutput ==
  \A c, d \in Calls :
    /\ calls[c].pc = "returned" /\ calls[d].pc = "returned"
    /\ calls[c].input = calls[d].input
    /\ calls[c].config = calls[d].config
    => Untimed(calls[c].result) = Untimed(calls[d].result)

\* C6 witness: two calls on the same array have returned under the same
\* configuration at different times.
C6_RepeatedCallReturned ==
  /\ calls["a"].pc = "returned" /\ calls["b"].pc = "returned"
  /\ calls["a"].input.type = "array"
  /\ calls["a"].input = calls["b"].input
  /\ calls["a"].config = calls["b"].config
  /\ calls["a"].result.timestamp # calls["b"].result.timestamp

SeverityRank(status) ==
  IF status = "normal" THEN 0 ELSE IF status = "warning" THEN 1 ELSE 2

\* C7: of two feature vectors that differ only in maxDeviation, the one with
\* the larger maxDeviation never has the lower severity rank.
C7_SeverityMonotone ==
  probe.stage = "classified" =>
    \A larger \in DeviationValues :
      larger > probe.features.maxDeviation =>
        SeverityRank(probe.classification.classification)
          <= SeverityRank(ClassifyTemperature(
               [probe.features EXCEPT !.maxDeviation = larger],
               metadata).classification)

\* C7 witness: a feature vector has been classified warning, and deviations
\* larger than its own exist.
C7_WarningWithLargerDeviations ==
  /\ probe.stage = "classified"
  /\ probe.classification.classification = "warning"
  /\ \E larger \in DeviationValues : larger > probe.features.maxDeviation

\* C8: once the instance is constructed the service is ready, whatever the
\* metadata file was; no predict call is ever suspended in the 100 ms wait and
\* the endpoint never answers 503.
C8_ReadyOnceConstructed ==
  /\ instance => isReady
  /\ \A c \in Calls : calls[c].pc # "waiting"
  /\ request.response.status # 503

\* C8 witness: the service was constructed with an unreadable metadata file,
\* a predict call has returned and the endpoint has answered 200.
C8_ServedAfterFailedLoad ==
  /\ instance
  /\ file.state = "unreadable"
  /\ \E c \in Calls : calls[c].pc = "returned"
  /\ request.response.status = 200

\* C9 (as claimed): whatever a caller does with the object getMetadata()
\* returned, the configuration stays the one construction set, and every
\* predict call classifies with it.
C9_ConfigurationIsReadOnly ==
  /\ instance => metadata = Initialize(DefaultMetadata, file).metadata
  /\ \A c \in Calls :
       calls[c].pc = "returned" =>
         calls[c].config = Initialize(DefaultMetadata, file).metadata

\* what a call on input returns when it runs alone under md at the given time
AloneOutcome(input, md, time) ==
  IF input.type = "array"
  THEN [pc |-> "returned", result |-> SuccessResult(input, md, time)]
  ELSE IF input.type = "null"
  THEN [pc |-> "rejected", result |-> NoResult]
  ELSE [pc |-> "returned", result |-> FailureResult(input, md, time)]

\* C10: whatever other calls are in flight, a predict call that runs to its
\* end gets exactly the outcome it would get alone, and no step of predict
\* changes the configuration, the readiness flag or another call.
C10_ConcurrentCallsIndependent ==
  [][ \A c \in Calls :
        PredictStep(c) =>
          /\ metadata' = metadata
          /\ isReady' = isReady
          /\ \A d \in Calls \ {c} : calls'[d] = calls[d]
          /\ calls'[c].pc # "waiting" =>
               /\ calls'[c].pc = AloneOutcome(calls[c].input, metadata, now).pc
               /\ calls'[c].result
                    = AloneOutcome(calls[c].input, metadata, now).result ]_vars

\* C10 witness: one call has returned while a call on another array is
\* still pending.
C10_OverlappingCalls ==
  \E c, d \in Calls :
    /\ calls[c].pc = "returned"
    /\ calls[d].pc = "called"
    /\ calls[c].input.type = "array"
    /\ calls[d].input.type = "array"
    /\ calls[c].input # calls[d].input

\* a reading the specification calls valid: a finite number strictly between 0 and 60
ClaimedValid(temp) == temp.k = "num" /\ 0 < temp.v /\ temp.v < 60000

\* how many entries of a sequence of readings are not valid
InvalidCount(readings) ==
  Cardinality({i \in DOMAIN readings : ~ClaimedValid(readings[i])})

\* C11: the inputSensors of the result of predict is the length of the array
\* passed in, invalid readings counted; so features.activeSensors never
\* exceeds it and the difference is exactly the number of invalid readings.
C11_InputSensorsCountsEveryReading ==
  \A c \in Calls :
    calls[c].pc = "returned" /\ calls[c].input.type = "array" =>
      LET r == calls[c].result
      IN  /\ r.inputSensors = Len(calls[c].input.readings)
          /\ r.features.activeSensors <= r.inputSensors
          /\ r.inputSensors - r.features.activeSensors
               = InvalidCount(calls[c].input.readings)

\* C11 witness: predict has returned for an array holding valid and invalid
\* readings, with inputSensors above activeSensors.
C11_InvalidReadingsCounted ==
  \E c \in Calls :
    /\ calls[c].pc = "returned"
    /\ calls[c].input.type = "array"
    /\ InvalidCount(calls[c].input.readings) > 0
    /\ calls[c].result.features.activeSensors > 0
    /\ calls[c].result.inputSensors > calls[c].result.features.activeSensors

\* the request has been answered with a success response
Answered200 == request.pc = "responded" /\ request.response.status = 200

\* C12: in every success response of the endpoint, inputSensors is the
\* number of readings supplied in the request, before filtering, so that it
\* differs from features.activeSensors exactly when a supplied reading was
\* invalid.
C12_ResponseCountsSuppliedReadings ==
  Answered200 =>
    /\ request.response.inputSensors = Len(request.body.readings)
    /\ (request.response.inputSensors # request.response.features.activeSensors
          <=> InvalidCount(request.body.readings) > 0)

\* C13: a request whose sensorData is an array without any valid reading
\* (empty, or garbage only) is refused: the answer is status 400, never a
\* success response.
C13_NoValidReadingIsRefused ==
  /\ request.pc = "responded"
  /\ request.body.type = "array"
  /\ InvalidCount(request.body.readings) = Len(request.body.readings)
  => request.response.status = 400

\* C13 witness: an array of garbage only has been answered, with status 400.
C13_GarbageAnswered400 ==
  /\ request.pc = "responded"
  /\ request.body.type = "array"
  /\ Len(request.body.readings) > 0
  /\ InvalidCount(request.body.readings) = Len(request.body.readings)
  /\ request.response.status = 400

\* C13 as first stated: such a request gets a normal success response, with
\* status normal and no active sensor.
C13_NoValidReadingIsServed ==
  /\ request.pc = "responded"
  /\ request.body.type = "array"
  /\ InvalidCount(request.body.readings) = Len(request.body.readings)
  => /\ request.response.status = 200
     /\ request.response.prediction = "normal"
     /\ request.response.features.activeSensors = 0

\* C14: predict on an array and predict on the same array with its invalid
\* entries removed return the same prediction, confidence, rawPrediction and
\* features; only inputSensors may differ.
C14_FilteringBeforehandChangesNothing ==
  \A c \in Calls :
    calls[c].pc = "returned" /\ calls[c].input.type = "array" =>
      LET r == calls[c].result
          cleaned == ArrayInput(SelectSeq(calls[c].input.readings, ClaimedValid))
          s == PredictOutcome(cleaned, calls[c].config, r.timestamp)
      IN  /\ s.pc = "returned"
          /\ s.result.success = r.success
          /\ s.result.prediction = r.prediction
          /\ s.result.confidence = r.confidence
          /\ s.result.rawPrediction = r.rawPrediction
          /\ s.result.features = r.features

\* C14 witness: predict has returned for an array that mixes valid readings
\* with entries of every invalid kind the filter removes.
C14_MixedArrayReturned ==
  \E c \in Calls :
    /\ calls[c].pc = "returned"
    /\ calls[c].input.type = "array"
    /\ InvalidCount(calls[c].input.readings) > 0
    /\ InvalidCount(calls[c].input.readings) < Len(calls[c].input.readings)
    /\ calls[c].result.prediction # "normal"

\* lines 125-126: maxDeviation as computed, before line 132 rounds it
ExactMaxDeviation(validReadings, md) ==
  LET deviations == {Abs(validReadings[i].v - md.referenceTemperature) :
                       i \in DOMAIN validReadings}
  IN  CHOOSE d \in deviations : \A e \in deviations : d >= e

\* lines 123-124: tempRange as computed, before line 131 rounds it
ExactRange(validReadings) ==
  LET temps == {validReadings[i].v : i \in DOMAIN validReadings}
  IN  (CHOOSE x \in temps : \A y \in temps : x >= y)
        - (CHOOSE x \in temps : \A y \in temps : x <= y)

\* C15: the threshold comparisons are made on the full-precision values, so
\* that the status is the branch the unrounded maxDeviation selects and the
\* range penalty applies exactly when the unrounded range exceeds 2.0;
\* rounding touches the reported values only.
C15_ComparisonsUseFullPrecision ==
  \A c \in Calls :
    /\ calls[c].pc = "returned"
    /\ calls[c].input.type = "array"
    /\ calls[c].result.features.activeSensors > 0
    => LET md == calls[c].config
           valid == SelectSeq(calls[c].input.readings, ClaimedValid)
           d == ExactMaxDeviation(valid, md)
       IN  /\ calls[c].result.prediction
                = IF d > 5000 THEN "critical"
                  ELSE IF d <= md.warningThreshold THEN "normal"
                  ELSE IF d <= md.criticalThreshold THEN "warning"
                  ELSE "critical"
           /\ (calls[c].result.features.tempRange > 2000
                 <=> ExactRange(valid) > 2000)

\* the classifier has been applied to a feature vector whose deviation leaves
\* the override out, under a valid configuration
LadderCase ==
  /\ probe.stage = "classified"
  /\ probe.features.maxDeviation <= 5000
  /\ ValidConfiguration(metadata)

\* C16: for a maxDeviation of at most 5.0 the status is normal exactly when
\* maxDeviation <= warning threshold, warning exactly when warning threshold
\* < maxDeviation <= critical threshold and critical exactly when
\* maxDeviation > critical threshold; with the default thresholds a
\* deviation of 1.5 is normal and one of 2.5 is warning.
C16_LadderWithTieBreaks ==
  LadderCase =>
    LET d == probe.features.maxDeviation
        status == probe.classification.classification
    IN  /\ status = "normal" <=> d <= metadata.warningThreshold
        /\ status = "warning" <=>
             metadata.warningThreshold < d /\ d <= metadata.criticalThreshold
        /\ status = "critical" <=> d > metadata.criticalThreshold
        /\ metadata.warningThreshold = 1500 /\ d = 1500 => status = "normal"
        /\ metadata.criticalThreshold = 2500 /\ d = 2500 => status = "warning"

\* C16 witness: a deviation of exactly 2.5 has been classified warning under
\* the default thresholds.
C16_OnCriticalThresholdIsWarning ==
  /\ LadderCase
  /\ metadata = DefaultMetadata
  /\ probe.features.maxDeviation = 2500
  /\ probe.classification.classification = "warning"

\* the ratio max_deviation / warning_threshold, taken as 0 when both are 0
ClaimedRatio(d, w) == IF w = 0 THEN Whole(0) ELSE Frac(d, w)

\* the base confidence of the band a deviation d falls into
ClaimedBase(d, md) ==
  LET w == md.warningThreshold
      c == md.criticalThreshold
  IN  IF d <= w
      THEN MathMax(Whole(60),
                   JsSub(Whole(100), JsMul(Whole(40), ClaimedRatio(d, w))))
      ELSE IF d <= c
      THEN MathMax(Whole(50), JsSub(Whole(80), Frac(30 * (d - w), c - w)))
      ELSE MathMin(Whole(95), JsAdd(Whole(70), Frac(10 * (d - c), 1000)))

\* the product of the range, deviation and sensor-count factors
ClaimedFactor(features) ==
  JsMul(JsMul(IF features.tempRange > 2000 THEN Frac(9, 10) ELSE Whole(1),
              IF features.tempStd > 1000 THEN Frac(95, 100) ELSE Whole(1)),
        IF features.activeSensors < 2 THEN Frac(8, 10)
        ELSE IF features.activeSensors >= 3 THEN Frac(11, 10)
        ELSE Whole(1))

\* base times factors, clamped to [10, 100] and rounded to one decimal
ClaimedConfidence(features, md) ==
  RoundTenths(MathMax(Whole(10),
              MathMin(Whole(100),
                      JsMul(ClaimedBase(features.maxDeviation, md),
                            ClaimedFactor(features)))))

\* C17: for a feature vector with maxDeviation <= 5.0 the reported
\* confidence is the base confidence of its band, multiplied by 0.9 if
\* tempRange > 2.0, by 0.95 if tempStd > 1.0, by 0.8 if activeSensors < 2 or
\* else by 1.1 if activeSensors >= 3, clamped to [10, 100] and rounded to
\* one decimal.
C17_ConfidenceIsBaseTimesFactors ==
  LadderCase =>
    probe.classification.confidence = ClaimedConfidence(probe.features, metadata)

\* min(95, 80 + 2 * d) for a deviation d in thousandths, in tenths
ClaimedOverrideTenths(d) ==
  LET t == RoundDiv(800000 + 20 * d, 1000)
  IN  IF t > 950 THEN 950 ELSE t

\* C18: when maxDeviation > 5.0 the reported confidence is
\* min(95, 80 + 2 * maxDeviation), whatever tempRange, tempStd and
\* activeSensors are, and lies in [90, 95]; the readings 18.0, 32.0, 15.5
\* with reference 25.0 are classified critical with confidence 95.
C18_OverrideConfidence ==
  \A c \in Calls :
    calls[c].pc = "returned" /\ calls[c].input.type = "array" =>
      LET r == calls[c].result
      IN  /\ r.features.maxDeviation > 5000 =>
               /\ r.prediction = "critical"
               /\ r.confidence
                    = [nan |-> FALSE,
                       tenths |-> ClaimedOverrideTenths(r.features.maxDeviation)]
               /\ 900 <= r.confidence.tenths /\ r.confidence.tenths <= 950
          /\ /\ calls[c].input.readings = SpreadReadings
             /\ calls[c].config.referenceTemperature = 25000
             => /\ r.prediction = "critical"
                /\ r.confidence = [nan |-> FALSE, tenths |-> 950]

\* C18 witness: the readings 18.0, 32.0, 15.5 have been classified under the
\* reference 25.0, their deviation 9.5 triggering the override.
C18_SpreadReadingsClassified ==
  \E c \in Calls :
    /\ calls[c].pc = "returned"
    /\ calls[c].input.readings = SpreadReadings
    /\ calls[c].config.referenceTemperature = 25000
    /\ calls[c].result.features.maxDeviation = 9500
    /\ calls[c].result.features.activeSensors = 3

\* C19: under a valid configuration whose warning threshold is 0 the
\* classifier never yields a confidence that is not a number, and a
\* deviation of 0 is classified normal from a base confidence of 100, the
\* ratio 0 / 0 counting as 0.
C19_ZeroWarningThresholdGuarded ==
  /\ probe.stage = "classified"
  /\ ValidConfiguration(metadata)
  /\ metadata.warningThreshold = 0
  => /\ ~probe.classification.confidence.nan
     /\ probe.features.maxDeviation = 0 =>
          /\ probe.classification.classification = "normal"
          /\ probe.classification.confidence
               = RoundTenths(MathMin(Whole(100),
                               JsMul(Whole(100), ClaimedFactor(probe.features))))

\* a value in thousandths as reported, rounded to two decimals
Reported(milli) == 10 * RoundDiv(milli, 10)

\* C20: feature extraction works on exactly the valid readings, the finite
\* ones strictly between 0 and 60: activeSensors is their number, tempRange
\* is their maximum minus their minimum and maxDeviation is their largest
\* distance from the reference temperature (not from their mean), both as
\* reported, to two decimals.
C20_FeaturesOfValidReadings ==
  \A c \in Calls :
    calls[c].pc = "returned" /\ calls[c].input.type = "array" =>
      LET f == calls[c].result.features
          valid == SelectSeq(calls[c].input.readings, ClaimedValid)
      IN  /\ f.activeSensors = Len(valid)
          /\ Len(valid) > 0 =>
               /\ f.tempRange = Reported(ExactRange(valid))
               /\ f.maxDeviation
                    = Reported(ExactMaxDeviation(valid, calls[c].config))

\* C20 witness: features have been extracted from an array holding a
\* reading on an edge of the range (0 or 60) and two valid readings lying on
\* the same side of the reference, further from it than from each other.
C20_EdgeReadingDropped ==
  \E c \in Calls :
    /\ calls[c].pc = "returned"
    /\ calls[c].input.type = "array"
    /\ \E i \in DOMAIN calls[c].input.readings :
         calls[c].input.readings[i] \in {Fin(0), Fin(60000)}
    /\ calls[c].result.features.activeSensors = 2
    /\ calls[c].result.features.tempRange > 0
    /\ calls[c].result.features.maxDeviation
         > calls[c].result.features.tempRange

\* C21: when no reading survives the filter, extractFeatures raises nothing
\* (predict returns from its try block) and the features are exactly
\* meanTemp = reference temperature, tempStd = 0, tempRange = 0,
\* maxDeviation = 0 and activeSensors = 0.
C21_NoValidReadingGivesDefaults ==
  \A c \in Calls :
    /\ calls[c].pc = "returned"
    /\ calls[c].input.type = "array"
    /\ InvalidCount(calls[c].input.readings) = Len(calls[c].input.readings)
    => /\ calls[c].result.success
       /\ calls[c].result.features
            = [ meanTemp      |-> calls[c].config.referenceTemperature,
                tempStd       |-> 0,
                tempRange     |-> 0,
                maxDeviation  |-> 0,
                activeSensors |-> 0 ]

\* C21 witness: an array of garbage only has been processed under a
\* reference temperature other than the default.
C21_GarbageUnderOtherReference ==
  \E c \in Calls :
    /\ calls[c].pc = "returned"
    /\ calls[c].input.type = "array"
    /\ Len(calls[c].input.readings) > 1
    /\ InvalidCount(calls[c].input.readings) = Len(calls[c].input.readings)
    /\ calls[c].config.referenceTemperature = 24000
    /\ calls[c].result.features.meanTemp = 24000

\* C22: with fewer than two valid readings tempStd and tempRange are 0 and
\* only the sensor-count penalty applies: for maxDeviation <= 5.0 the
\* confidence is 0.8 times the base confidence of the band (as reported, to
\* one decimal); predict([]) under the defaults returns normal, rawPrediction
\* 25.0 and confidence 80.
C22_FewReadingsOnlySensorPenalty ==
  \A c \in Calls :
    /\ calls[c].pc = "returned"
    /\ calls[c].input.type = "array"
    /\ Len(calls[c].input.readings) - InvalidCount(calls[c].input.readings) < 2
    /\ ValidConfiguration(calls[c].config)
    => LET r == calls[c].result
       IN  /\ r.features.tempStd = 0
           /\ r.features.tempRange = 0
           /\ r.features.maxDeviation <= 5000 =>
                r.confidence
                  = RoundTenths(JsMul(Frac(8, 10),
                                      ClaimedBase(r.features.maxDeviation,
                                                  calls[c].config)))
           /\ calls[c].input.readings = <<>> /\ calls[c].config = DefaultMetadata
              => /\ r.prediction = "normal"
                 /\ r.rawPrediction = 25000
                 /\ r.confidence = [nan |-> FALSE, tenths |-> 800]

\* predict has returned for an array under the configuration of the
\* constructor
DefaultCase(c) ==
  /\ calls[c].pc = "returned"
  /\ calls[c].input.type = "array"
  /\ calls[c].config = DefaultMetadata

\* C23: under the default configuration the confidence predict returns for
\* an array of readings is a number from 10 to 100, both limits included.
C23_ConfidenceAtMostHundred ==
  \A c \in Calls :
    DefaultCase(c) =>
      /\ ~calls[c].result.confidence.nan
      /\ 100 <= calls[c].result.confidence.tenths
      /\ calls[c].result.confidence.tenths <= 1000

\* C23 witness: three sensors close to the reference have been classified
\* normal with confidence 100, the product with 1.1 having been clamped.
C23_FullCertaintyReported ==
  \E c \in Calls :
    /\ DefaultCase(c)
    /\ calls[c].result.features.activeSensors = 3
    /\ calls[c].result.prediction = "normal"
    /\ calls[c].result.confidence = [nan |-> FALSE, tenths |-> 1000]

\* C23 as first stated: under the default configuration the confidence is
\* strictly below 100 and never below 10.
C23_ConfidenceBelowHundred ==
  \A c \in Calls :
    DefaultCase(c) =>
      /\ ~calls[c].result.confidence.nan
      /\ 100 <= calls[c].result.confidence.tenths
      /\ calls[c].result.confidence.tenths < 1000

\* the metadata file is there and, merged over the defaults, gives a
\* critical threshold that is not above the warning threshold
SuppliesBadThresholds(f) ==
  /\ f.state = "present"
  /\ LET w == IF "warningThreshold" \in DOMAIN f.content
              THEN f.content.warningThreshold ELSE 1500
         k == IF "criticalThreshold" \in DOMAIN f.content
              THEN f.content.criticalThreshold ELSE 2500
     IN  k <= w

\* C24: a configuration source that supplies critical threshold <= warning
\* threshold is rejected at construction: the service never becomes ready
\* and no call of predict is ever answered with a classification made under
\* such thresholds.
C24_BadThresholdsRejected ==
  instance /\ SuppliesBadThresholds(file) =>
    /\ ~isReady
    /\ \A c \in Calls :
         calls[c].pc = "returned" =>
           calls[c].config.warningThreshold < calls[c].config.criticalThreshold

\* C25: when reading or parsing the metadata file fails, construction still
\* ends with the service ready and with the default configuration untouched:
\* reference 25.0, warning 1.5, critical 2.5, maxSensors 10.
C25_FailedLoadKeepsDefaults ==
  [][ ~instance /\ instance' /\ file.state = "unreadable" =>
        /\ isReady'
        /\ metadata'.referenceTemperature = 25000
        /\ metadata'.warningThreshold = 1500
        /\ metadata'.criticalThreshold = 2500
        /\ metadata'.maxSensors = 10 ]_vars

\* C25 witness: the service was constructed over an unreadable file and has
\* answered a call under the default thresholds.
C25_AnsweredAfterFailedLoad ==
  /\ instance
  /\ file.state = "unreadable"
  /\ isReady
  /\ \E c \in Calls :
       /\ calls[c].pc = "returned"
       /\ calls[c].input.type = "array"
       /\ calls[c].config = DefaultMetadata
       /\ calls[c].result.prediction = "warning"

\* C26: under the default configuration every result predict returns for an
\* array of readings has confidence >= 40, so the floor of 10 never binds;
\* 40 is what a single valid reading with maxDeviation exactly 2.5 gets.
C26_ConfidenceAtLeastForty ==
  \A c \in Calls :
    DefaultCase(c) =>
      LET r == calls[c].result
      IN  /\ ~r.confidence.nan
          /\ r.confidence.tenths >= 400
          /\ r.features.activeSensors = 1 /\ r.features.maxDeviation = 2500
             => r.confidence.tenths = 400

\* C26 witness: a single valid reading 2.5 degrees from the reference has
\* been classified warning with confidence 40.
C26_MinimumReached ==
  \E c \in Calls :
    /\ DefaultCase(c)
    /\ calls[c].result.features.activeSensors = 1
    /\ calls[c].result.features.maxDeviation = 2500
    /\ calls[c].result.prediction = "warning"
    /\ calls[c].result.confidence = [nan |-> FALSE, tenths |-> 400]

\* C27: under one configuration the status is a function of maxDeviation
\* alone: any feature vector with the same maxDeviation as the one
\* classified gets the same status, whatever its meanTemp, tempStd,
\* tempRange and activeSensors.
C27_StatusDependsOnDeviationOnly ==
  probe.stage = "classified" =>
    \A g \in FeatureVectors :
      g.maxDeviation = probe.features.maxDeviation =>
        ClassifyTemperature(g, metadata).classification
          = probe.classification.classification

\* C27 witness: a feature vector has been classified for which another
\* vector with the same maxDeviation gets another confidence.
C27_SameStatusOtherConfidence ==
  /\ probe.stage = "classified"
  /\ probe.classification.classification = "warning"
  /\ \E g \in FeatureVectors :
       /\ g.maxDeviation = probe.features.maxDeviation
       /\ ClassifyTemperature(g, metadata).confidence
            # probe.classification.confidence

\* C28: cancellation of a training job is final: once its status is
\* 'cancelled', no step of the route or of simulateTraining changes the
\* status (in particular not to 'completed') or advances the progress.
C28_CancellationIsFinal ==
  [][ \A j \in JobIds :
        training.jobs[j].status = "cancelled" =>
          /\ training'.jobs[j].status = "cancelled"
          /\ training'.jobs[j].progress = training.jobs[j].progress ]_vars

\* C29: while the sensorData prop stays the same, an alert the user removed
\* with handleDelete or clearAllResolved is never in the alerts list again.
C29_RemovedAlertStaysRemoved ==
  panel.mounted =>
    \A id \in panel.removed : id \notin AlertIds(panel.alerts)

\* C30: whatever the models directory holds, a POST to /api/models/status
\* is eventually answered: the polling of isReady() ends.
C30_PreloadEventuallyAnswers ==
  (preload.req # "idle") ~> (preload.req = "responded")

====
